---------------------------- MODULE Spec2Model ----------------------------
(***************************************************************************)
(* nix-yang-tools, src/main.rs: the yang2nix / nix2yang converter.         *)
(*                                                                         *)
(* main() reads a JSON document, visits every keyed List node of the YANG  *)
(* schema (each root's traverse() reversed), finds the node's data by      *)
(* walking its ancestors, rewrites it between an Array of Objects          *)
(* (list-style) and nested Objects keyed by the key values (map-style),    *)
(* and finally prints the document.  A panic! / expect / unwrap aborts the *)
(* process before anything is printed.                                     *)
(*                                                                         *)
(* A JSON value is a record: its kind t and one field per kind of payload  *)
(* (b, n, s, a, o).  The payload o of an Object is a function from field   *)
(* names to values; serde_json's default Map is a BTreeMap, so       *)
(* iteration over an Object goes in ascending key order (ObjectKeys).      *)
(***************************************************************************)
EXTENDS Integers, Sequences, FiniteSets, TLC

VARIABLES
    schema,   \* the loaded schema tree (module.data(), main.rs:195-197)
    mode,     \* ConvertMode: "Yang2Nix" or "Nix2Yang"
    order,    \* the keyed List nodes in visiting order (main.rs:302-305)
    idx,      \* position of the for loop in order
    data,     \* the value tree being rewritten in place (main.rs:300)
    status,   \* "running", "panicked" or "done" (after println)
    printed,  \* the documents written to stdout by this process
    node,     \* the schema node of the latest loop iteration (0: none yet)
    before,   \* data as it was when the latest loop iteration started
    input,    \* the document the first process read
    run       \* 1: the first process; 2: a second process fed its output

vars == <<schema, mode, order, idx, data, status, printed, node, before, input, run>>

-----------------------------------------------------------------------------
(* serde_json::Value *)

\* The Object with no fields.
NoFields == [f \in {} |-> 0]

Null == [t |-> "null", b |-> FALSE, n |-> 0, s |-> "", a |-> <<>>, o |-> NoFields]
Bool(b) == [Null EXCEPT !.t = "bool", !.b = b]
Num(n) == [Null EXCEPT !.t = "num", !.n = n]
Str(s) == [Null EXCEPT !.t = "str", !.s = s]
Arr(q) == [Null EXCEPT !.t = "arr", !.a = q]
Obj(f) == [Null EXCEPT !.t = "obj", !.o = f]

IsObject(x) == x.t = "obj"
IsArray(x) == x.t = "arr"

\* Every field name and map key of the model, in the byte order a
\* BTreeMap<String, Value> iterates in.
AllNames ==
    << "1", "2", "a", "b", "id", "items", "num", "region",
       "rtbrick-config:kl", "rtbrick-config:sys", "sub", "true", "v", "zone" >>

\* The keys of Object x in iteration order.
ObjectKeys(x) == SelectSeq(AllNames, LAMBDA k : k \in DOMAIN x.o)

\* The integers whose decimal text occurs as a key.
KeyNumbers == 0 .. 9

-----------------------------------------------------------------------------
(* References into the value tree: a path of Object-field and Array-index  *)
(* steps from the root (the &mut Value elements of p).                     *)

Field(k) == [f |-> k, i |-> 0]
Index(n) == [f |-> "", i |-> n]

RECURSIVE GetAt(_, _)
GetAt(x, path) ==
    IF path = <<>> THEN x
    ELSE IF Head(path).i = 0
         THEN GetAt(x.o[Head(path).f], Tail(path))
         ELSE GetAt(x.a[Head(path).i], Tail(path))

RECURSIVE SetAt(_, _, _)
SetAt(x, path, new) ==
    IF path = <<>> THEN new
    ELSE IF Head(path).i = 0
         THEN Obj([x.o EXCEPT ![Head(path).f] = SetAt(@, Tail(path), new)])
         ELSE Arr([x.a EXCEPT ![Head(path).i] = SetAt(@, Tail(path), new)])

\* flat_map(..).collect(): the concatenation of a sequence of sequences.
RECURSIVE Concat(_)
Concat(ss) ==
    IF ss = <<>> THEN <<>> ELSE Head(ss) \o Concat(Tail(ss))

-----------------------------------------------------------------------------
(* The schema tree, as yang2 exposes it.  A schema is the sequence of its  *)
(* nodes in traverse() order (depth first, parents before children);       *)
(* parent = 0 marks a root.                                                *)

Container(name, parent) ==
    [name |-> name, kind |-> "Container", parent |-> parent, key |-> FALSE, type |-> "none"]
List(name, parent) ==
    [name |-> name, kind |-> "List", parent |-> parent, key |-> FALSE, type |-> "none"]
Leaf(name, parent, type) ==
    [name |-> name, kind |-> "Leaf", parent |-> parent, key |-> FALSE, type |-> type]
KeyLeaf(name, parent, type) ==
    [name |-> name, kind |-> "Leaf", parent |-> parent, key |-> TRUE, type |-> type]

\* sys { items [id: string] { v, sub [num: uint32] { v } } }
SchemaOneKey ==
    << Container("sys", 0),
       List("items", 1), KeyLeaf("id", 2, "String"), Leaf("v", 2, "Uint32"),
       List("sub", 2), KeyLeaf("num", 5, "Uint32"), Leaf("v", 5, "Uint32") >>

\* sys { items [region: string, zone: uint32] { v, sub [id: string] { v } } }
SchemaTwoKeys ==
    << Container("sys", 0),
       List("items", 1), KeyLeaf("region", 2, "String"), KeyLeaf("zone", 2, "Uint32"),
       Leaf("v", 2, "Uint32"),
       List("sub", 2), KeyLeaf("id", 6, "String"), Leaf("v", 6, "Uint32") >>

\* kl (keyless) { v, sub [id: string] { v } } ; sys { items [num: uint32] { v } }
SchemaKeyless ==
    << List("kl", 0), Leaf("v", 1, "Uint32"),
       List("sub", 1), KeyLeaf("id", 3, "String"), Leaf("v", 3, "Uint32"),
       Container("sys", 0),
       List("items", 6), KeyLeaf("num", 7, "Uint32"), Leaf("v", 7, "Uint32") >>

Schemas == {SchemaOneKey, SchemaTwoKeys, SchemaKeyless}

\* node.list_keys(): the key leaves of a List, in schema order.
ListKeys(s, n) ==
    SelectSeq([i \in 1 .. Len(s) |-> i], LAMBDA c : s[c].parent = n /\ s[c].key)

\* node.is_keyless_list()
IsKeylessList(s, n) == s[n].kind = "List" /\ ListKeys(s, n) = <<>>

\* node.inclusive_ancestors() reversed: from the root down to n.
RECURSIVE Ancestors(_, _)
Ancestors(s, n) ==
    IF s[n].parent = 0 THEN <<n>> ELSE Append(Ancestors(s, s[n].parent), n)

Reverse(q) == [i \in 1 .. Len(q) |-> q[Len(q) + 1 - i]]

\* root.traverse(): the root and its descendants, parents first.
Traverse(s, root) ==
    SelectSeq([i \in 1 .. Len(s) |-> i], LAMBDA c : Head(Ancestors(s, c)) = root)

\* module.data(): the top-level nodes.
Roots(s) == SelectSeq([i \in 1 .. Len(s) |-> i], LAMBDA c : s[c].parent = 0)

\* The loop with the filter on is_keyless_list() left out.
ProgramOrderAllLists(s) ==
    SelectSeq(Concat([r \in 1 .. Len(Roots(s)) |-> Reverse(Traverse(s, Roots(s)[r]))]),
              LAMBDA c : s[c].kind = "List")

\* The nodes the for loop visits: every root's traverse() reversed, keeping
\* the Lists that have keys.
ProgramOrder(s) ==
    SelectSeq(Concat([r \in 1 .. Len(Roots(s)) |-> Reverse(Traverse(s, Roots(s)[r]))]),
              LAMBDA c : s[c].kind = "List" /\ ~IsKeylessList(s, c))

-----------------------------------------------------------------------------
(* Locating a node's data: main.rs:311-338 and 432-449.                    *)

Fail(tree) == [ok |-> FALSE, v |-> tree]
Done(tree) == [ok |-> TRUE, v |-> tree]

\* x.get_mut(&k): the field k of an Object; None for anything else.
GetMut(tree, path, k) ==
    LET x == GetAt(tree, path)
    IN  IF IsObject(x) /\ k \in DOMAIN x.o THEN <<Append(path, Field(k))>> ELSE <<>>

\* One name lookup of the working set.
Lookup(tree, p, k) == Concat([j \in 1 .. Len(p) |-> GetMut(tree, p[j], k)])

\* What one descent step iterates for a reference: the elements of an Array,
\* the values of an Object.
Children(tree, path) ==
    LET x == GetAt(tree, path)
    IN  IF IsArray(x) THEN [j \in 1 .. Len(x.a) |-> Append(path, Index(j))]
        ELSE IF IsObject(x)
             THEN [j \in 1 .. Len(ObjectKeys(x)) |-> Append(path, Field(ObjectKeys(x)[j]))]
             ELSE <<>>

\* `for _ in an.list_keys()`: n descent steps; a reference to anything but
\* an Array or an Object panics.
RECURSIVE Descend(_, _, _)
Descend(tree, p, n) ==
    IF n = 0 THEN [ok |-> TRUE, p |-> p]
    ELSE IF \E j \in 1 .. Len(p) : ~(IsArray(GetAt(tree, p[j])) \/ IsObject(GetAt(tree, p[j])))
         THEN [ok |-> FALSE, p |-> <<>>]
         ELSE Descend(tree, Concat([j \in 1 .. Len(p) |-> Children(tree, p[j])]), n - 1)

\* The name the i-th ancestor is looked up by.
LookupName(s, anc, i) ==
    IF i = 1 THEN "rtbrick-config:" \o s[anc[i]].name ELSE s[anc[i]].name

\* The ancestor loop from its i-th step on, up to the lookup of the node
\* itself: the working set p the rewrite is applied to (empty: nothing
\* found), ok = FALSE for a panic, and miss = TRUE when it was a name lookup
\* that left the working set empty.
RECURSIVE Walk(_, _, _, _, _)
Walk(s, anc, i, tree, p) ==
    LET p1 == Lookup(tree, p, LookupName(s, anc, i))
    IN  IF i = Len(anc) \/ p1 = <<>> THEN [ok |-> TRUE, p |-> p1, miss |-> p1 = <<>>]
        ELSE LET d == IF s[anc[i]].kind = "List"
                      THEN Descend(tree, p1, Len(ListKeys(s, anc[i])))
                      ELSE [ok |-> TRUE, p |-> p1]
             IN  IF ~d.ok \/ d.p = <<>> THEN [ok |-> d.ok, p |-> <<>>, miss |-> FALSE]
                 ELSE Walk(s, anc, i + 1, tree, d.p)

Resolve(s, n, tree) == Walk(s, Ancestors(s, n), 1, tree, << <<>> >>)

-----------------------------------------------------------------------------
(* ConvertMode::Yang2Nix, main.rs:345-378.                                 *)

\* The map key of a key value: a string as it is, a number as its text.
KeyString(k) ==
    IF k.t = "str" THEN [ok |-> TRUE, s |-> k.s]
    ELSE IF k.t = "num" THEN [ok |-> TRUE, s |-> ToString(k.n)]
    ELSE [ok |-> FALSE, s |-> ""]

RemoveField(el, name) == Obj([f \in DOMAIN el.o \ {name} |-> el.o[f]])

\* The key fields removed from el one by one, in schema key order.
RECURSIVE RemoveKeys(_, _)
RemoveKeys(el, names) ==
    IF names = <<>> THEN [ok |-> TRUE, ks |-> <<>>, el |-> el]
    ELSE IF ~IsObject(el) \/ Head(names) \notin DOMAIN el.o
              \/ ~KeyString(el.o[Head(names)]).ok
         THEN [ok |-> FALSE, ks |-> <<>>, el |-> el]
         ELSE LET r == RemoveKeys(RemoveField(el, Head(names)), Tail(names))
              IN  [r EXCEPT !.ks = <<KeyString(el.o[Head(names)]).s>> \o @]

\* p2 after the descent along ks, with el stored at its end.
RECURSIVE InsertNested(_, _, _)
InsertNested(p2, ks, el) ==
    IF ks = <<>> THEN el
    ELSE LET o == IF IsObject(p2) THEN p2.o ELSE NoFields
             child == IF Head(ks) \in DOMAIN o THEN o[Head(ks)] ELSE Null
         IN  Obj([f \in DOMAIN o \cup {Head(ks)} |->
                    IF f = Head(ks) THEN InsertNested(child, Tail(ks), el) ELSE o[f]])

\* `for mut el in as_array`, e being what is left at the reference.
RECURSIVE InsertAll(_, _, _)
InsertAll(e, els, names) ==
    IF els = <<>> THEN Done(e)
    ELSE LET r == RemoveKeys(Head(els), names)
         IN  IF ~r.ok THEN Fail(e)
             ELSE InsertAll(InsertNested(e, r.ks, r.el), Tail(els), names)

\* The rewrite without the check for an Array: anything else is taken for
\* an empty one.
ListToMapLenient(e, names) ==
    IF ~IsArray(e) THEN Done(Null) ELSE InsertAll(Null, e.a, names)

\* e.take() leaves Null at the reference.
ListToMap(e, names) ==
    IF ~IsArray(e) THEN Fail(e) ELSE InsertAll(Null, e.a, names)

-----------------------------------------------------------------------------
(* ConvertMode::Nix2Yang, main.rs:379-424.                                 *)

NumericTypes ==
    {"Int8", "Int16", "Int32", "Int64", "Uint8", "Uint16", "Uint32", "Uint64", "Dec64"}

\* serde_json::from_str on a key text: a number, a JSON literal, or Err.
FromStr(text) ==
    IF \E n \in KeyNumbers : ToString(n) = text
    THEN Done(Num(CHOOSE n \in KeyNumbers : ToString(n) = text))
    ELSE IF text = "true" THEN Done(Bool(TRUE))
    ELSE IF text = "false" THEN Done(Bool(FALSE))
    ELSE IF text = "null" THEN Done(Null)
    ELSE Fail(Null)

\* The value a key text is inserted as, by the key leaf's base_type().
KeyValue(text, type) ==
    IF type \in NumericTypes THEN FromStr(text) ELSE Done(Str(text))

\* `for (key, key_name) in depth.into_iter().zip(node.list_keys())`
RECURSIVE InsertKeys(_, _, _, _)
InsertKeys(s, el, depth, keys) ==
    IF depth = <<>> \/ keys = <<>> THEN Done(el)
    ELSE LET k == KeyValue(Head(depth), s[Head(keys)].type)
         IN  IF ~k.ok \/ ~IsObject(el) THEN Fail(el)
             ELSE InsertKeys(s,
                    Obj([f \in DOMAIN el.o \cup {s[Head(keys)].name} |->
                           IF f = s[Head(keys)].name THEN k.v ELSE el.o[f]]),
                    Tail(depth), Tail(keys))

\* `while let Some((depth, mut el)) = q.pop()`
RECURSIVE WorkList(_, _, _, _)
WorkList(s, keys, q, a) ==
    IF q = <<>> THEN Done(Arr(a))
    ELSE LET it == q[Len(q)]
             rest == SubSeq(q, 1, Len(q) - 1)
         IN  IF Len(it.depth) = Len(keys)
             THEN LET r == InsertKeys(s, it.el, it.depth, keys)
                  IN  IF ~r.ok THEN Fail(Null) ELSE WorkList(s, keys, rest, Append(a, r.v))
             ELSE IF ~IsObject(it.el) THEN Fail(Null)
             ELSE WorkList(s, keys,
                    rest \o [j \in 1 .. Len(ObjectKeys(it.el)) |->
                               [depth |-> Append(it.depth, ObjectKeys(it.el)[j]),
                                el |-> it.el.o[ObjectKeys(it.el)[j]]]],
                    a)

MapToList(s, e, keys) == WorkList(s, keys, << [depth |-> <<>>, el |-> e] >>, <<>>)

-----------------------------------------------------------------------------
(* One iteration of the for loop over the keyed List nodes.                *)

KeyNames(s, n) == [j \in 1 .. Len(ListKeys(s, n)) |-> s[ListKeys(s, n)[j]].name]

\* The rewrite of one reference, by mode.
Convert(s, n, md, e) ==
    IF md = "Yang2Nix" THEN ListToMap(e, KeyNames(s, n))
    ELSE MapToList(s, e, ListKeys(s, n))

\* `for e in &mut p`
RECURSIVE ConvertEach(_, _, _, _, _)
ConvertEach(s, n, md, tree, p) ==
    IF p = <<>> THEN Done(tree)
    ELSE LET r == Convert(s, n, md, GetAt(tree, Head(p)))
         IN  IF ~r.ok THEN Fail(tree)
             ELSE ConvertEach(s, n, md, SetAt(tree, Head(p), r.v), Tail(p))

\* The iteration without the break on an empty working set: a node whose
\* data is not found is an error.
VisitNodeNeedsData(s, n, md, tree) ==
    LET r == Resolve(s, n, tree)
    IN  IF ~r.ok \/ r.p = <<>> THEN Fail(tree)
        ELSE ConvertEach(s, n, md, tree, r.p)

VisitNode(s, n, md, tree) ==
    LET r == Resolve(s, n, tree)
    IN  IF ~r.ok THEN Fail(tree)
        ELSE IF r.p = <<>> THEN Done(tree)
        ELSE ConvertEach(s, n, md, tree, r.p)

-----------------------------------------------------------------------------
(* The documents main() may be given (serde_json::from_reader,             *)
(* main.rs:300): list-style and map-style documents of each schema, well   *)
(* formed or not.                                                          *)

\* Longest Array of a top-level List, and of a List inside another.
MaxLen == 2
MaxInner == 1

Modes == {"Yang2Nix", "Nix2Yang"}

SeqsUpTo(S, n) == UNION {[1 .. m -> S] : m \in 0 .. n}

\* The number of Lists above node n.
ListDepth(s, n) ==
    Cardinality({j \in 1 .. Len(Ancestors(s, n)) - 1 : s[Ancestors(s, n)[j]].kind = "List"})

LenBound(s, n) == IF ListDepth(s, n) = 0 THEN MaxLen ELSE MaxInner

\* The values a key leaf takes in the documents.
KeyDomain(s, k) ==
    IF s[k].type \in NumericTypes THEN {Num(1), Num(2)}
    ELSE IF ListDepth(s, k) = 1 THEN {Str("a"), Str("b")}
    ELSE {Str("a")}

\* The same values as map keys.
KeyTexts(s, k) == {KeyString(x).s : x \in KeyDomain(s, k)}

\* The non-key leaves of a record: every one present.
Payload(s, n) ==
    [f \in {s[c].name : c \in {c \in 1 .. Len(s) : s[c].parent = n /\ s[c].kind = "Leaf" /\ ~s[c].key}}
       |-> Num(7)]

ChildLists(s, n) ==
    SelectSeq([i \in 1 .. Len(s) |-> i], LAMBDA c : s[c].parent = n /\ s[c].kind = "List")

\* All assignments of values to the key leaves ks.
RECURSIVE KeyFields(_, _)
KeyFields(s, ks) ==
    IF ks = <<>> THEN {NoFields}
    ELSE {(s[Head(ks)].name :> x) @@ g : x \in KeyDomain(s, Head(ks)), g \in KeyFields(s, Tail(ks))}

\* Objects nested one level per key in ks, over the leaves.
RECURSIVE MapLevels(_, _, _)
MapLevels(s, ks, leaves) ==
    IF ks = <<>> THEN leaves
    ELSE LET inner == MapLevels(s, Tail(ks), leaves)
         IN  {Obj(m) : m \in UNION {[D -> inner] : D \in SUBSET KeyTexts(s, Head(ks))}}

\* One Object level per key in ks, a single entry each, down to leaf.
RECURSIVE OnePath(_, _, _)
OnePath(s, ks, leaf) ==
    IF ks = <<>> THEN leaf
    ELSE Obj((CHOOSE x \in KeyTexts(s, Head(ks)) : TRUE) :> OnePath(s, Tail(ks), leaf))

RECURSIVE ListValues(_, _, _)
RECURSIVE ChildFields(_, _, _, _)

\* A record's List children, each absent or present.
ChildFields(s, cs, style, prefix) ==
    IF cs = <<>> THEN {NoFields}
    ELSE {f @@ g :
            f \in {NoFields} \cup
                  {((prefix \o s[Head(cs)].name) :> x) : x \in ListValues(s, Head(cs), style)},
            g \in ChildFields(s, Tail(cs), style, prefix)}

\* What a document holds for List node n: its records as an Array or as
\* nested Objects, or something that is neither form.
ListValues(s, n, style) ==
    LET kids == ChildFields(s, ChildLists(s, n), style, "")
        keys == ListKeys(s, n)
        stripped == {Obj(Payload(s, n) @@ c) : c \in kids}
        records == {Obj(k @@ Payload(s, n) @@ c) : k \in KeyFields(s, keys), c \in kids}
        top == ListDepth(s, n) = 0
        odd == {Str("a")}
        oddList == IF top /\ keys # <<>>
                   THEN {Arr(<<Str("a")>>), Arr(<<Obj(Payload(s, n))>>),
                         Arr(<<Obj((s[Head(keys)].name :> Null) @@ Payload(s, n))>>)}
                   ELSE {}
        oddMap == IF keys # <<>>
                  THEN {Obj("true" :> OnePath(s, Tail(keys), Obj(Payload(s, n))))}
                       \cup (IF top
                             THEN {Obj("a" :> Num(7)),
                                   OnePath(s, keys, Obj("b" :> Obj(Payload(s, n))))}
                             ELSE {})
                  ELSE {}
    IN  IF keys = <<>>
        THEN {Arr(q) : q \in SeqsUpTo(records, LenBound(s, n))} \cup stripped \cup odd
        ELSE IF style = "list"
        THEN {Arr(q) : q \in SeqsUpTo(records, LenBound(s, n))} \cup odd \cup oddList
        ELSE MapLevels(s, keys, stripped) \cup odd \cup oddMap

\* The top-level fields, one per root present.
RECURSIVE RootFields(_, _, _)
RootFields(s, rs, style) ==
    IF rs = <<>> THEN {NoFields}
    ELSE LET r == Head(rs)
             name == "rtbrick-config:" \o s[r].name
             here == IF s[r].kind = "List"
                     THEN {(name :> x) : x \in ListValues(s, r, style)}
                     ELSE {(name :> Obj(c)) : c \in ChildFields(s, ChildLists(s, r), style, "")}
         IN  {f @@ g : f \in {NoFields} \cup here, g \in RootFields(s, Tail(rs), style)}

Documents(s) ==
    {Obj(f) : f \in RootFields(s, Roots(s), "list") \cup RootFields(s, Roots(s), "map")}

-----------------------------------------------------------------------------
(* main(), from the parsed document to the printed one.                    *)

Init ==
    /\ schema \in Schemas
    /\ mode \in Modes
    /\ input \in Documents(schema)
    /\ order = ProgramOrder(schema)
    /\ data = input
    /\ before = input
    /\ idx = 1
    /\ node = 0
    /\ status = "running"
    /\ printed = <<>>
    /\ run = 1

\* One iteration of `for node in ...` (main.rs:302-451); a panic ends the
\* process.
Visit ==
    /\ status = "running"
    /\ idx <= Len(order)
    /\ LET r == VisitNode(schema, order[idx], mode, data)
       IN  /\ data' = r.v
           /\ status' = IF r.ok THEN "running" ELSE "panicked"
    /\ node' = order[idx]
    /\ before' = data
    /\ idx' = idx + 1
    /\ UNCHANGED <<schema, mode, order, printed, input, run>>

\* println!("{}", serde_json::to_string(&data).unwrap()) (main.rs:453)
Println ==
    /\ status = "running"
    /\ idx > Len(order)
    /\ printed' = Append(printed, data)
    /\ status' = "done"
    /\ UNCHANGED <<schema, mode, order, idx, data, node, before, input, run>>

\* The document yang2nix printed is given to nix2yang: a second process
\* (main.rs:159-300) with the same schema.
Feed ==
    /\ status = "done"
    /\ run = 1
    /\ mode = "Yang2Nix"
    /\ run' = 2
    /\ mode' = "Nix2Yang"
    /\ data' = printed[1]
    /\ before' = printed[1]
    /\ idx' = 1
    /\ node' = 0
    /\ status' = "running"
    /\ printed' = <<>>
    /\ UNCHANGED <<schema, order, input>>

Next == Visit \/ Println \/ Feed

Spec == Init /\ [][Next]_vars

\* The same program with the keyed List nodes visited in any order.
Orders(q) ==
    {r \in [1 .. Len(q) -> {q[j] : j \in 1 .. Len(q)}] :
        \A i, j \in 1 .. Len(q) : r[i] = r[j] => i = j}

InitAnyOrder ==
    /\ schema \in Schemas
    /\ mode \in Modes
    /\ input \in Documents(schema)
    /\ order \in Orders(ProgramOrder(schema))
    /\ data = input
    /\ before = input
    /\ idx = 1
    /\ node = 0
    /\ status = "running"
    /\ printed = <<>>
    /\ run = 1

SpecAnyOrder == InitAnyOrder /\ [][Next]_vars

-----------------------------------------------------------------------------
(* What the properties below speak of.                                     *)

\* A loop iteration has run in this process and did not panic.
Rewritten(md) == mode = md /\ node # 0 /\ status # "panicked"

\* The references the latest iteration resolved for its node.
Located == Resolve(schema, node, before)

KeyCount == Len(ListKeys(schema, node))

\* The text a key value is rendered as.
Rendering(x) == IF x.t = "num" THEN ToString(x.n) ELSE x.s

\* The key tuple of a list element, rendered.
TupleOf(el, names) == [j \in 1 .. Len(names) |-> Rendering(el.o[names[j]])]

\* The element without its key fields.
WithoutKeys(el, names) ==
    Obj([f \in DOMAIN el.o \ {names[j] : j \in 1 .. Len(names)} |-> el.o[f]])

\* The sequences of k field names that lead from x through Objects.
RECURSIVE Entries(_, _)
Entries(x, k) ==
    IF k = 0 THEN {<<>>}
    ELSE IF ~IsObject(x) THEN {}
    ELSE UNION {{<<f>> \o r : r \in Entries(x.o[f], k - 1)} : f \in DOMAIN x.o}

\* The value a sequence of field names leads to.
RECURSIVE Follow(_, _)
Follow(x, ks) == IF ks = <<>> THEN x ELSE Follow(x.o[Head(ks)], Tail(ks))

\* Every value reached from x by k or fewer field steps is an Object.
RECURSIVE ObjectsDownTo(_, _)
ObjectsDownTo(x, k) ==
    /\ IsObject(x)
    /\ k > 0 => \A f \in DOMAIN x.o : ObjectsDownTo(x.o[f], k - 1)

\* The whole loop as a function of the document.
RECURSIVE RunAll(_, _, _, _)
RunAll(s, md, ord, tree) ==
    IF ord = <<>> THEN Done(tree)
    ELSE LET r == VisitNode(s, Head(ord), md, tree)
         IN  IF ~r.ok THEN r ELSE RunAll(s, md, Tail(ord), r.v)

-----------------------------------------------------------------------------
\* C10: after ListToMap rewrites a located keyed List node whose data is an
\* Array, the value there is a JSON Object; an empty Array becomes an empty
\* Object.
C10_ResultIsObject ==
    Rewritten("Yang2Nix") =>
        \A j \in 1 .. Len(Located.p) :
            IsArray(GetAt(before, Located.p[j])) => IsObject(GetAt(data, Located.p[j]))

\* C8: ListToMap turns an Array of Objects into a nested Object in which the
\* rendered key tuple of every element leads to the last element with that
\* tuple, its key fields removed, and which has no other entries.
C8_ElementPlacement ==
    Rewritten("Yang2Nix") =>
        \A j \in 1 .. Len(Located.p) :
            LET src == GetAt(before, Located.p[j]).a
                res == GetAt(data, Located.p[j])
                names == KeyNames(schema, node)
                tuples == {TupleOf(src[i], names) : i \in 1 .. Len(src)}
                last(tp) == src[CHOOSE i \in 1 .. Len(src) :
                                  /\ TupleOf(src[i], names) = tp
                                  /\ \A h \in i + 1 .. Len(src) : TupleOf(src[h], names) # tp]
            IN  /\ IsObject(res)
                /\ Entries(res, Len(names)) = tuples
                /\ \A tp \in tuples : Follow(res, tp) = WithoutKeys(last(tp), names)

\* The part of C8 that holds of every Array, the empty one included: the
\* entries of the result are the key tuples, each leading to the last
\* element with that tuple, its key fields removed.
PlacementOfElements ==
    Rewritten("Yang2Nix") =>
        \A j \in 1 .. Len(Located.p) :
            LET src == GetAt(before, Located.p[j]).a
                res == GetAt(data, Located.p[j])
                names == KeyNames(schema, node)
                tuples == {TupleOf(src[i], names) : i \in 1 .. Len(src)}
                last(tp) == src[CHOOSE i \in 1 .. Len(src) :
                                  /\ TupleOf(src[i], names) = tp
                                  /\ \A h \in i + 1 .. Len(src) : TupleOf(src[h], names) # tp]
            IN  /\ src # <<>> => IsObject(res)
                /\ Entries(res, Len(names)) = tuples
                /\ \A tp \in tuples : Follow(res, tp) = WithoutKeys(last(tp), names)

\* C7: every element MapToList produces carries the i-th key string of its
\* path under the name of the i-th key field: as a JSON Number when the key
\* field's type is numeric, as the String unchanged otherwise.
C7_KeyRetyping ==
    Rewritten("Nix2Yang") =>
        \A j \in 1 .. Len(Located.p) :
            LET src == GetAt(before, Located.p[j])
                res == GetAt(data, Located.p[j]).a
                keys == ListKeys(schema, node)
                typed(el, tp) ==
                    \A i \in 1 .. Len(keys) :
                        LET x == el.o[schema[keys[i]].name]
                        IN  IF schema[keys[i]].type \in NumericTypes
                            THEN x.t = "num" /\ ToString(x.n) = tp[i]
                            ELSE x = Str(tp[i])
            IN  /\ \A tp \in Entries(src, Len(keys)) : \E h \in 1 .. Len(res) : typed(res[h], tp)
                /\ \A h \in 1 .. Len(res) : \E tp \in Entries(src, Len(keys)) : typed(res[h], tp)

\* The references to the data of node n in every record of its parent List
\* a, whichever form a's data has: each element of an Array, each value
\* under KeyCount-of-a nested Object levels.
InstancesUnder(s, n, tree) ==
    LET a == s[n].parent
        aPath == <<Field("rtbrick-config:" \o s[s[a].parent].name), Field(s[a].name)>>
        there == /\ aPath[1].f \in DOMAIN tree.o
                 /\ IsObject(tree.o[aPath[1].f])
                 /\ aPath[2].f \in DOMAIN tree.o[aPath[1].f].o
        x == GetAt(tree, aPath)
        records == IF IsArray(x) THEN {<<Index(i)>> : i \in 1 .. Len(x.a)}
                   ELSE {[j \in 1 .. Len(tp) |-> Field(tp[j])] :
                            tp \in Entries(x, Len(ListKeys(s, a)))}
    IN  IF ~there THEN {}
        ELSE {aPath \o r \o <<Field(s[n].name)>> :
                r \in {r \in records : /\ IsObject(GetAt(tree, aPath \o r))
                                       /\ s[n].name \in DOMAIN GetAt(tree, aPath \o r).o}}

\* Node n lies below a keyed List that lies below a root container.
BelowKeyedList(s, n) ==
    /\ n # 0
    /\ Len(Ancestors(s, n)) = 3
    /\ s[s[n].parent].kind = "List"
    /\ ~IsKeylessList(s, s[n].parent)

\* C9: in the program's own visiting order, the descent through a List
\* ancestor with k key fields leaves one reference per record of the
\* ancestor, be its data an Array or a depth-k nested Object, so that the
\* node's data under every record is rewritten, for every k >= 1.
C9_OneReferencePerRecord ==
    (order = ProgramOrder(schema) /\ BelowKeyedList(schema, node) /\ status # "panicked") =>
        /\ {Located.p[j] : j \in 1 .. Len(Located.p)} = InstancesUnder(schema, node, before)
        /\ \A e \in InstancesUnder(schema, node, before) :
              IsArray(GetAt(data, e)) = (mode = "Nix2Yang")

\* C2: visiting the keyed List nodes in any permutation gives the outcome of
\* the program's own order: the same error, or the same final tree.
C2_OrderIndependence ==
    (run = 1 /\ (status = "panicked" \/ idx > Len(order))) =>
        LET r == RunAll(schema, mode, ProgramOrder(schema), input)
        IN  /\ (status = "panicked") = ~r.ok
            /\ r.ok => data = r.v

\* x is list-style data of List node n: an Array of Objects that carry every
\* key field with a value of its declared kind, the Lists below likewise.
RECURSIVE ValidList(_, _, _)
ValidList(s, n, x) ==
    /\ IsArray(x)
    /\ \A i \in 1 .. Len(x.a) :
          LET el == x.a[i]
          IN  /\ IsObject(el)
              /\ \A j \in 1 .. Len(ListKeys(s, n)) :
                    LET k == s[ListKeys(s, n)[j]]
                    IN  /\ k.name \in DOMAIN el.o
                        /\ el.o[k.name].t = IF k.type \in NumericTypes THEN "num" ELSE "str"
              /\ \A j \in 1 .. Len(ChildLists(s, n)) :
                    LET c == ChildLists(s, n)[j]
                    IN  s[c].name \in DOMAIN el.o => ValidList(s, c, el.o[s[c].name])

\* The document is valid in list-style form.
ValidListStyle(s, tree) ==
    \A j \in 1 .. Len(Roots(s)) :
        LET r == Roots(s)[j]
            name == "rtbrick-config:" \o s[r].name
        IN  name \in DOMAIN tree.o =>
                IF s[r].kind = "List" THEN ValidList(s, r, tree.o[name])
                ELSE /\ IsObject(tree.o[name])
                     /\ \A h \in 1 .. Len(ChildLists(s, r)) :
                           LET c == ChildLists(s, r)[h]
                           IN  s[c].name \in DOMAIN tree.o[name].o =>
                                   ValidList(s, c, tree.o[name].o[s[c].name])

\* C1: for a document valid in list-style form, yang2nix and then nix2yang
\* on its output both succeed and give the document back.
C1_RoundTrip ==
    ((run = 2 \/ mode = "Yang2Nix") /\ ValidListStyle(schema, input)) =>
        /\ status # "panicked"
        /\ (run = 2 /\ status = "done") => printed[1] = input

\* The text parses as JSON.
IsJsonText(text) ==
    text \in {ToString(n) : n \in KeyNumbers} \cup {"true", "false", "null"}

\* The names a record of List node n may carry besides its keys.
RecordFields(s, n) == {s[c].name : c \in {c \in 1 .. Len(s) : s[c].parent = n /\ ~s[c].key}}

\* x is nested exactly k levels above records of List node n.
RECURSIVE ExactDepth(_, _, _, _)
ExactDepth(s, n, x, k) ==
    /\ IsObject(x)
    /\ IF k = 0 THEN DOMAIN x.o \subseteq RecordFields(s, n)
       ELSE \A f \in DOMAIN x.o : ExactDepth(s, n, x.o[f], k - 1)

\* ListToMap puts every element of the Array exactly KeyCount Object levels
\* below the node's value.
ElementsAtKeyDepth ==
    Rewritten("Yang2Nix") =>
        \A j \in 1 .. Len(Located.p) :
            LET src == GetAt(before, Located.p[j]).a
                res == GetAt(data, Located.p[j])
                names == KeyNames(schema, node)
            IN  /\ src # <<>> => ObjectsDownTo(res, KeyCount)
                /\ Entries(res, KeyCount) = {TupleOf(src[i], names) : i \in 1 .. Len(src)}

\* C3 as stated: ListToMap produces KeyCount levels, and MapToList converts
\* only a nested Object of depth exactly KeyCount; shallower or deeper
\* nesting is an error.
C3_KeyCountInvariant ==
    /\ ElementsAtKeyDepth
    /\ Rewritten("Nix2Yang") =>
          \A j \in 1 .. Len(Located.p) :
              ExactDepth(schema, node, GetAt(before, Located.p[j]), KeyCount)

\* What the traversal does check: MapToList panics exactly when a value
\* reached by KeyCount or fewer field steps is not an Object or the text of
\* a numeric key is not JSON, and otherwise yields one element per path of
\* KeyCount steps, whatever lies below.
DepthChecked ==
    /\ ElementsAtKeyDepth
    /\ (mode = "Nix2Yang" /\ node # 0 /\ Located.ok /\ Located.p # <<>>) =>
          LET keys == ListKeys(schema, node)
              bad(x) == \/ ~ObjectsDownTo(x, KeyCount)
                        \/ \E tp \in Entries(x, KeyCount) : \E i \in 1 .. KeyCount :
                              /\ schema[keys[i]].type \in NumericTypes
                              /\ ~IsJsonText(tp[i])
          IN  /\ (status = "panicked") = (\E j \in 1 .. Len(Located.p) : bad(GetAt(before, Located.p[j])))
              /\ status # "panicked" =>
                    \A j \in 1 .. Len(Located.p) :
                        /\ IsArray(GetAt(data, Located.p[j]))
                        /\ Len(GetAt(data, Located.p[j]).a)
                             = Cardinality(Entries(GetAt(before, Located.p[j]), KeyCount))

\* C4: when a name lookup of the ancestor walk finds no field, so that the
\* working set is empty, the iteration ends without error and leaves the
\* whole tree as it was.
C4_AbsenceTolerance ==
    (node # 0 /\ Located.miss) => (status # "panicked" /\ data = before)

\* The root is there, the List below it is not, and the iteration for it is
\* over while a sibling subtree holds data.
C4_Witness ==
    /\ schema = SchemaKeyless
    /\ node = 7
    /\ Located.miss
    /\ "rtbrick-config:sys" \in DOMAIN before.o
    /\ "rtbrick-config:kl" \in DOMAIN before.o
    /\ status = "running"

\* The keyless Lists at the top of the schema.
KeylessRoots(s) == {r \in {Roots(s)[j] : j \in 1 .. Len(Roots(s))} : IsKeylessList(s, r)}

\* C5 as stated: in both directions the data at the path of a keyless List
\* is the same after the run as before it.
C5_KeylessUntouched ==
    (run = 1 /\ status = "done") =>
        \A r \in KeylessRoots(schema) :
            LET name == "rtbrick-config:" \o schema[r].name
            IN  name \in DOMAIN input.o => printed[1].o[name] = input.o[name]

\* C5 as amended: the same, for data that is not an Object (an Object there
\* is searched by name for the keyed Lists below, which are rewritten).
C5_KeylessArrayUntouched ==
    (run = 1 /\ status = "done") =>
        \A r \in KeylessRoots(schema) :
            LET name == "rtbrick-config:" \o schema[r].name
            IN  (name \in DOMAIN input.o /\ ~IsObject(input.o[name])) =>
                    printed[1].o[name] = input.o[name]

\* A run that rewrote another List and left a keyless Array, with a keyed
\* List's data inside, alone.
C5_Witness ==
    /\ run = 1
    /\ status = "done"
    /\ schema = SchemaKeyless
    /\ printed[1] # input
    /\ "rtbrick-config:kl" \in DOMAIN input.o
    /\ IsArray(input.o["rtbrick-config:kl"])
    /\ \E i \in 1 .. Len(input.o["rtbrick-config:kl"].a) :
          /\ "sub" \in DOMAIN input.o["rtbrick-config:kl"].a[i].o
          /\ IsArray(input.o["rtbrick-config:kl"].a[i].o["sub"])

=============================================================================
